---- MODULE Spec2Model ----
(***************************************************************************)
(* Model of the AI gateway of backend/app/main.py: class AIService with    *)
(* its four coroutines analyze_contract, generate_contract_draft,          *)
(* assess_legal_risk and legal_research.  Each coroutine builds a prompt,  *)
(* awaits openai.ChatCompletion.acreate (its only suspension point) and    *)
(* then either returns the (decoded) first completion or, inside           *)
(* `except Exception`, logs and returns a fixed default.                   *)
(*                                                                         *)
(* Python values are pairs <<type, payload>>:                              *)
(*   <<"int", n>>, <<"float", name>>, <<"bool", b>>, <<"None", "None">>,    *)
(*   <<"str", chunks>>   chunks: the text as a sequence of pieces,         *)
(*   <<"list", seq>>, <<"dict", f>>   f: a function from keys to values.   *)
(* A completion text is the sequence of its lexemes (TLA+ strings).        *)
(*                                                                         *)
(* The routes that call the gateway (ai_chat, analyze_contract,            *)
(* generate_contract, assess_risk, upload_document) are modelled with the  *)
(* dependency get_current_user in front of them: http[c] is the request    *)
(* slot c is serving.  Timestamps and generated ids are left out of the    *)
(* response bodies.                                                        *)
(***************************************************************************)
EXTENDS Integers, Sequences, FiniteSets, TLC

VARIABLES pc, task, input, request, invocations, outcome, result, heap,
          log, tampered, http

\* the state of the gateway calls
gwvars == <<pc, task, input, request, invocations, outcome, result, heap,
            log, tampered>>

vars == <<pc, task, input, request, invocations, outcome, result, heap,
          log, tampered, http>>

(***************************************************************************)
(* Bounds                                                                  *)
(***************************************************************************)
\* number of gateway calls that may be in flight at once (SpecConc)
NCalls == 2
\* longest generated completion text, in lexemes
MaxLen == 3

(***************************************************************************)
(* Python values                                                           *)
(***************************************************************************)
PyNone == <<"None", "None">>
PyInt(n) == <<"int", n>>
PyStr(chunks) == <<"str", chunks>>
PyList(s) == <<"list", s>>
PyDict(f) == <<"dict", f>>
PyFloat(name) == <<"float", name>>
PyBool(b) == <<"bool", b>>

EmptyDict == [k \in {} |-> PyNone]

IsDict(v) == v[1] = "dict"
IsInt(v) == v[1] = "int"
IsStr(v) == v[1] = "str"
IsList(v) == v[1] = "list"
IsStrList(v) == IsList(v) /\ \A i \in 1..Len(v[2]) : IsStr(v[2][i])

(***************************************************************************)
(* json.loads: the lexemes of a completion and what the decoder makes of   *)
(* them.  Whitespace between tokens is skipped; a quoted lexeme decodes to *)
(* its content; a number lexeme to an int; besides true, false and null    *)
(* the decoder also accepts the constants NaN, Infinity and -Infinity      *)
(* (parse_constant default of json.loads).  Anything else is rejected.     *)
(***************************************************************************)
Whitespace == {" ", "\n"}

StringLexeme ==
    [ l \in { "\"risk_score\"", "\"key_terms\"", "\"potential_issues\"",
              "\"recommendations\"", "\"missing_clauses\"",
              "\"risk_level\"", "\"risk_factors\"",
              "\"mitigation_strategies\"", "\"recommended_actions\"",
              "\"summary\"", "\"key_principles\"", "\"precedent_cases\"",
              "\"practical_implications\"", "\"confidence\"",
              "\"indemnification\"", "\"one-sided termination\"",
              "\"add mutual termination\"", "\"force majeure\"",
              "\"High\"", "\"Severe\"", "\"data breach\"",
              "\"encrypt records\"", "\"notify regulator\"",
              "\"Statute of frauds\"", "\"writing required\"",
              "\"Smith v. Jones\"", "\"oral deals unenforceable\"",
              "\"get it in writing\"", "\"7\"" } |->
        CASE l = "\"risk_score\"" -> "risk_score"
          [] l = "\"key_terms\"" -> "key_terms"
          [] l = "\"potential_issues\"" -> "potential_issues"
          [] l = "\"recommendations\"" -> "recommendations"
          [] l = "\"missing_clauses\"" -> "missing_clauses"
          [] l = "\"risk_level\"" -> "risk_level"
          [] l = "\"risk_factors\"" -> "risk_factors"
          [] l = "\"mitigation_strategies\"" -> "mitigation_strategies"
          [] l = "\"recommended_actions\"" -> "recommended_actions"
          [] l = "\"summary\"" -> "summary"
          [] l = "\"key_principles\"" -> "key_principles"
          [] l = "\"precedent_cases\"" -> "precedent_cases"
          [] l = "\"practical_implications\"" -> "practical_implications"
          [] l = "\"confidence\"" -> "confidence"
          [] l = "\"indemnification\"" -> "indemnification"
          [] l = "\"one-sided termination\"" -> "one-sided termination"
          [] l = "\"add mutual termination\"" -> "add mutual termination"
          [] l = "\"force majeure\"" -> "force majeure"
          [] l = "\"High\"" -> "High"
          [] l = "\"Severe\"" -> "Severe"
          [] l = "\"data breach\"" -> "data breach"
          [] l = "\"encrypt records\"" -> "encrypt records"
          [] l = "\"notify regulator\"" -> "notify regulator"
          [] l = "\"Statute of frauds\"" -> "Statute of frauds"
          [] l = "\"writing required\"" -> "writing required"
          [] l = "\"Smith v. Jones\"" -> "Smith v. Jones"
          [] l = "\"oral deals unenforceable\"" -> "oral deals unenforceable"
          [] l = "\"get it in writing\"" -> "get it in writing"
          [] l = "\"7\"" -> "7" ]

NumberLexeme == ("7" :> 7) @@ ("5" :> 5) @@ ("3" :> 3)

ConstantLexeme ==
    ("true" :> PyBool(TRUE)) @@ ("false" :> PyBool(FALSE)) @@
    ("null" :> PyNone) @@ ("NaN" :> PyFloat("nan")) @@
    ("Infinity" :> PyFloat("inf")) @@ ("-Infinity" :> PyFloat("-inf"))

\* the decoder's verdict on a text from position i on: ok, the value and
\* the position after it; err names the JSONDecodeError message
DecodeFail(msg, i) == [ok |-> FALSE, val |-> PyNone, next |-> i, err |-> msg]
DecodeOk(v, i) == [ok |-> TRUE, val |-> v, next |-> i, err |-> ""]

RECURSIVE scan_once(_, _)
RECURSIVE parse_object(_, _, _)
RECURSIVE parse_array(_, _, _)

\* JSONDecoder.scan_once: one JSON value starting at toks[i]
scan_once(toks, i) ==
    IF i > Len(toks) THEN DecodeFail("Expecting value", i)
    ELSE LET l == toks[i] IN
         CASE l \in DOMAIN StringLexeme ->
                  DecodeOk(PyStr(<<StringLexeme[l]>>), i + 1)
           [] l \in DOMAIN NumberLexeme -> DecodeOk(PyInt(NumberLexeme[l]), i + 1)
           [] l \in DOMAIN ConstantLexeme -> DecodeOk(ConstantLexeme[l], i + 1)
           [] l = "{" ->
                  IF i + 1 <= Len(toks) /\ toks[i + 1] = "}"
                  THEN DecodeOk(PyDict(EmptyDict), i + 2)
                  ELSE parse_object(toks, i + 1, EmptyDict)
           [] l = "[" ->
                  IF i + 1 <= Len(toks) /\ toks[i + 1] = "]"
                  THEN DecodeOk(PyList(<<>>), i + 2)
                  ELSE parse_array(toks, i + 1, <<>>)
           [] OTHER -> DecodeFail("Expecting value", i)

\* JSONObject: the members from toks[i] on, acc the pairs decoded so far;
\* a repeated key keeps its last value
parse_object(toks, i, acc) ==
    IF i > Len(toks) \/ toks[i] \notin DOMAIN StringLexeme
    THEN DecodeFail("Expecting property name enclosed in double quotes", i)
    ELSE IF i + 1 > Len(toks) \/ toks[i + 1] # ":"
    THEN DecodeFail("Expecting ':' delimiter", i + 1)
    ELSE LET v == scan_once(toks, i + 2) IN
         IF ~v.ok THEN v
         ELSE LET acc2 == (StringLexeme[toks[i]] :> v.val) @@ acc IN
              IF v.next > Len(toks)
              THEN DecodeFail("Expecting ',' delimiter", v.next)
              ELSE IF toks[v.next] = "}" THEN DecodeOk(PyDict(acc2), v.next + 1)
              ELSE IF toks[v.next] = "," THEN parse_object(toks, v.next + 1, acc2)
              ELSE DecodeFail("Expecting ',' delimiter", v.next)

\* JSONArray: the elements from toks[i] on, acc the values decoded so far
parse_array(toks, i, acc) ==
    LET v == scan_once(toks, i) IN
    IF ~v.ok THEN v
    ELSE LET acc2 == Append(acc, v.val) IN
         IF v.next > Len(toks)
         THEN DecodeFail("Expecting ',' delimiter", v.next)
         ELSE IF toks[v.next] = "]" THEN DecodeOk(PyList(acc2), v.next + 1)
         ELSE IF toks[v.next] = "," THEN parse_array(toks, v.next + 1, acc2)
         ELSE DecodeFail("Expecting ',' delimiter", v.next)

SkipWhitespace(text) == SelectSeq(text, LAMBDA l : l \notin Whitespace)

\* json.loads(s) for a str s: decode one value, then reject trailing data
json_loads(text) ==
    LET toks == SkipWhitespace(text)
        v == scan_once(toks, 1)
    IN IF ~v.ok THEN v
       ELSE IF v.next <= Len(toks) THEN DecodeFail("Extra data", v.next)
       ELSE v

(***************************************************************************)
(* Exceptions.  An exception is its class and its message, str(e).  All    *)
(* the classes below derive from Exception, which is what the handlers     *)
(* `except Exception as e` catch.                                          *)
(***************************************************************************)
OpenAIErrorClasses ==
    {"APIConnectionError", "AuthenticationError", "APIError", "Timeout"}

ExceptionClasses ==
    OpenAIErrorClasses \cup {"JSONDecodeError", "TypeError", "IndexError"}

InvokerErrors ==
    { [cls |-> "APIConnectionError", msg |-> "Error communicating with OpenAI"],
      [cls |-> "AuthenticationError", msg |-> "Incorrect API key provided"],
      [cls |-> "APIError", msg |-> "The server had an error"],
      [cls |-> "Timeout", msg |-> "Request timed out"] }

IndexError == [cls |-> "IndexError", msg |-> "list index out of range"]
TypeError ==
    [cls |-> "TypeError",
     msg |-> "the JSON object must be str, bytes or bytearray, not NoneType"]
JSONDecodeError(msg) == [cls |-> "JSONDecodeError", msg |-> msg]
NoError == [cls |-> "", msg |-> ""]

\* the result of evaluating an expression: a value, or a thrown exception
Returned(v) == [exc |-> FALSE, e |-> NoError, val |-> v]
Thrown(e) == [exc |-> TRUE, e |-> e, val |-> PyNone]

(***************************************************************************)
(* The outcome of `await openai.ChatCompletion.acreate(...)`: it raises,   *)
(* or it yields a response whose choices hold the completions' contents    *)
(* (a str, or None).                                                       *)
(***************************************************************************)
Raises(e) == [kind |-> "raise", e |-> e, choices |-> <<>>]
Response(choices) == [kind |-> "response", e |-> NoError, choices |-> choices]
NoOutcome == [kind |-> "none", e |-> NoError, choices |-> <<>>]

\* response.choices[0].message.content
first_content(out) ==
    IF out.kind = "raise" THEN Thrown(out.e)
    ELSE IF Len(out.choices) = 0 THEN Thrown(IndexError)
    ELSE Returned(out.choices[1])

\* json.loads left out: the completion is handed back as the str it is
loads_raw(content) == Returned(content)

\* decoding with JSONDecoder.raw_decode: the first value of the text is
\* taken and what follows it is ignored
loads_prefix(content) ==
    IF ~IsStr(content) THEN Thrown(TypeError)
    ELSE LET d == scan_once(SkipWhitespace(content[2]), 1) IN
         IF d.ok THEN Returned(d.val) ELSE Thrown(JSONDecodeError(d.err))

\* json.loads(content) as an expression: TypeError unless content is a
\* str, JSONDecodeError when the decoder rejects the text
loads(content) ==
    IF ~IsStr(content) THEN Thrown(TypeError)
    ELSE LET d == json_loads(content[2]) IN
         IF d.ok THEN Returned(d.val) ELSE Thrown(JSONDecodeError(d.err))

\* `except openai.error.OpenAIError`
IsOpenAIError(e) == e.cls \in OpenAIErrorClasses

\* `except Exception`
IsException(e) == e.cls \in ExceptionClasses

(***************************************************************************)
(* The four gateways, from the await on.  Each yields what the coroutine   *)
(* does: return a value or let the exception through, and the entries it   *)
(* hands to logger.error.                                                  *)
(***************************************************************************)
Tasks == {"analyze_contract", "generate_contract_draft",
          "assess_legal_risk", "legal_research"}
JsonTasks == Tasks \ {"generate_contract_draft"}

Return(v, entries) == [kind |-> "return", val |-> v, e |-> NoError, log |-> entries]
Propagate(e) == [kind |-> "raise", val |-> PyNone, e |-> e, log |-> <<>>]

\* the analysis default with the two messages under each other's key
AnalyzeDefaultSwapped ==
    PyDict([risk_score |-> PyInt(5),
            key_terms |-> PyList(<<>>),
            potential_issues |-> PyList(<<PyStr(<<"Manual review recommended">>)>>),
            recommendations |-> PyList(<<PyStr(<<"Analysis error occurred">>)>>),
            missing_clauses |-> PyList(<<>>)])

AnalyzeDefault ==
    PyDict([risk_score |-> PyInt(5),
            key_terms |-> PyList(<<>>),
            potential_issues |-> PyList(<<PyStr(<<"Analysis error occurred">>)>>),
            recommendations |-> PyList(<<PyStr(<<"Manual review recommended">>)>>),
            missing_clauses |-> PyList(<<>>)])

\* the assessment default with a level outside Low, Medium, High, Critical
AssessDefaultUnknownLevel ==
    PyDict([risk_level |-> PyStr(<<"Unknown">>),
            risk_score |-> PyInt(5),
            risk_factors |-> PyList(<<PyStr(<<"Assessment error occurred">>)>>),
            mitigation_strategies |-> PyList(<<PyStr(<<"Manual review recommended">>)>>),
            recommended_actions |-> PyList(<<PyStr(<<"Consult legal expert">>)>>)])

AssessDefault ==
    PyDict([risk_level |-> PyStr(<<"Medium">>),
            risk_score |-> PyInt(5),
            risk_factors |-> PyList(<<PyStr(<<"Assessment error occurred">>)>>),
            mitigation_strategies |-> PyList(<<PyStr(<<"Manual review recommended">>)>>),
            recommended_actions |-> PyList(<<PyStr(<<"Consult legal expert">>)>>)])

\* the research default with no recommendation
ResearchDefaultNoAdvice ==
    PyDict([summary |-> PyStr(<<"Research error occurred">>),
            key_principles |-> PyList(<<>>),
            precedent_cases |-> PyList(<<>>),
            practical_implications |-> PyList(<<>>),
            recommendations |-> PyList(<<>>)])

ResearchDefault ==
    PyDict([summary |-> PyStr(<<"Research error occurred">>),
            key_principles |-> PyList(<<>>),
            precedent_cases |-> PyList(<<>>),
            practical_implications |-> PyList(<<>>),
            recommendations |-> PyList(<<PyStr(<<"Manual research recommended">>)>>)])

analyze_contract(out) ==
    LET c == first_content(out)
        r == IF c.exc THEN c ELSE loads(c.val)
    IN IF ~r.exc THEN Return(r.val, <<>>)
       ELSE IF IsException(r.e)
       THEN Return(AnalyzeDefault,
                   <<PyStr(<<"Error analyzing contract: ", r.e.msg>>)>>)
       ELSE Propagate(r.e)

\* the draft gateway decoding its completion as the other three do
generate_contract_draft_decoding(out) ==
    LET c == first_content(out)
        r == IF c.exc THEN c ELSE loads(c.val)
    IN IF ~r.exc THEN Return(r.val, <<>>)
       ELSE IF IsException(r.e)
       THEN Return(PyStr(<<"Error generating contract draft: ", r.e.msg>>),
                   <<PyStr(<<"Error generating contract: ", r.e.msg>>)>>)
       ELSE Propagate(r.e)

\* the draft gateway returning the text it logs
generate_contract_draft_logged_text(out) ==
    LET r == first_content(out)
    IN IF ~r.exc THEN Return(r.val, <<>>)
       ELSE IF IsException(r.e)
       THEN Return(PyStr(<<"Error generating contract: ", r.e.msg>>),
                   <<PyStr(<<"Error generating contract: ", r.e.msg>>)>>)
       ELSE Propagate(r.e)

generate_contract_draft(out) ==
    LET r == first_content(out)
    IN IF ~r.exc THEN Return(r.val, <<>>)
       ELSE IF IsException(r.e)
       THEN Return(PyStr(<<"Error generating contract draft: ", r.e.msg>>),
                   <<PyStr(<<"Error generating contract: ", r.e.msg>>)>>)
       ELSE Propagate(r.e)

assess_legal_risk(out) ==
    LET c == first_content(out)
        r == IF c.exc THEN c ELSE loads(c.val)
    IN IF ~r.exc THEN Return(r.val, <<>>)
       ELSE IF IsException(r.e)
       THEN Return(AssessDefault,
                   <<PyStr(<<"Error assessing risk: ", r.e.msg>>)>>)
       ELSE Propagate(r.e)

\* legal_research falling back without a word to the logger
legal_research_unlogged(out) ==
    LET c == first_content(out)
        r == IF c.exc THEN c ELSE loads(c.val)
    IN IF ~r.exc THEN Return(r.val, <<>>)
       ELSE IF IsException(r.e) THEN Return(ResearchDefault, <<>>)
       ELSE Propagate(r.e)

legal_research(out) ==
    LET c == first_content(out)
        r == IF c.exc THEN c ELSE loads(c.val)
    IN IF ~r.exc THEN Return(r.val, <<>>)
       ELSE IF IsException(r.e)
       THEN Return(ResearchDefault,
                   <<PyStr(<<"Error in legal research: ", r.e.msg>>)>>)
       ELSE Propagate(r.e)

\* the coroutine of task t resumed with the outcome of its await
Gateway(t, out) ==
    CASE t = "analyze_contract" -> analyze_contract(out)
      [] t = "generate_contract_draft" -> generate_contract_draft(out)
      [] t = "assess_legal_risk" -> assess_legal_risk(out)
      [] t = "legal_research" -> legal_research(out)

(***************************************************************************)
(* The request each gateway sends: model, system persona, prompt (the      *)
(* template with the caller's text spliced in) and temperature.            *)
(***************************************************************************)
Persona(t) ==
    CASE t = "analyze_contract" ->
             "You are a legal AI assistant specialized in contract analysis."
      [] t = "generate_contract_draft" ->
             "You are a legal AI assistant specialized in contract drafting."
      [] t = "assess_legal_risk" ->
             "You are a legal risk assessment AI assistant."
      [] t = "legal_research" -> "You are a legal research AI assistant."

\* one temperature for every gateway
TemperatureUniform(t) == "0.1"

Temperature(t) == IF t = "generate_contract_draft" THEN "0.2" ELSE "0.1"

PromptHead(t) ==
    CASE t = "analyze_contract" ->
             "Analyze the following contract for potential risks and key terms:"
      [] t = "generate_contract_draft" -> "Generate a professional contract draft:"
      [] t = "assess_legal_risk" ->
             "Assess the legal risk for the following situation:"
      [] t = "legal_research" ->
             "Conduct legal research on the following query:"

(***************************************************************************)
(* The arguments of a call: text is contract_text, contract_type,          *)
(* description or query; parties the parties of a draft; data the          *)
(* key_terms of a draft or the context of an assessment.                   *)
(***************************************************************************)
Args(text, parties, data) == [text |-> text, parties |-> parties, data |-> data]
NoArgs == Args("", PyNone, PyNone)

\* ', '.join(parties): TypeError unless parties is a list of str
str_join(parties) ==
    IF ~IsList(parties)
    THEN Thrown([cls |-> "TypeError", msg |-> "can only join an iterable"])
    ELSE IF ~IsStrList(parties)
    THEN Thrown([cls |-> "TypeError",
                 msg |-> "sequence item: expected str instance"])
    ELSE LET items == parties[2]
             n == Len(items)
         IN Returned([i \in 1..(IF n = 0 THEN 0 ELSE 2 * n - 1) |->
                         IF i % 2 = 1 THEN items[(i + 1) \div 2][2][1] ELSE ", "])

\* the types json.dumps encodes
RECURSIVE Serializable(_)
Serializable(v) ==
    CASE v[1] \in {"str", "int", "float", "bool", "None"} -> TRUE
      [] v[1] = "list" -> \A i \in 1..Len(v[2]) : Serializable(v[2][i])
      [] v[1] = "dict" -> \A k \in DOMAIN v[2] : Serializable(v[2][k])
      [] OTHER -> FALSE

RECURSIVE encode(_)
RECURSIVE encode_items(_, _)
RECURSIVE encode_members(_, _)

\* JSONEncoder with indent: the lexemes of a serializable value
encode(v) ==
    CASE v[1] = "str" -> <<CHOOSE l \in DOMAIN StringLexeme : StringLexeme[l] = v[2][1]>>
      [] v[1] = "int" -> <<CHOOSE l \in DOMAIN NumberLexeme : NumberLexeme[l] = v[2]>>
      [] v[1] \in {"float", "bool", "None"} ->
             <<CHOOSE l \in DOMAIN ConstantLexeme : ConstantLexeme[l] = v>>
      [] v[1] = "list" ->
             IF v[2] = <<>> THEN <<"[", "]">>
             ELSE <<"[", "\n">> \o encode_items(v[2], 1) \o <<"\n", "]">>
      [] v[1] = "dict" ->
             IF DOMAIN v[2] = {} THEN <<"{", "}">>
             ELSE <<"{", "\n">> \o encode_members(v[2], DOMAIN v[2]) \o <<"\n", "}">>

encode_items(items, i) ==
    IF i = Len(items) THEN encode(items[i])
    ELSE encode(items[i]) \o <<",", "\n">> \o encode_items(items, i + 1)

encode_members(f, keys) ==
    LET k == CHOOSE x \in keys : TRUE
        member == <<CHOOSE l \in DOMAIN StringLexeme : StringLexeme[l] = k,
                    ":", " ">> \o encode(f[k])
    IN IF keys = {k} THEN member
       ELSE member \o <<",", "\n">> \o encode_members(f, keys \ {k})

\* json.dumps(data, indent=2)
json_dumps(data) ==
    IF Serializable(data) THEN Returned(encode(data))
    ELSE Thrown([cls |-> "TypeError",
                 msg |-> "Object of type datetime is not JSON serializable"])

\* the prompt's f-string: the template with the arguments spliced in, the
\* interpolations evaluated from left to right
build_prompt(t, a) ==
    CASE t = "generate_contract_draft" ->
             LET j == str_join(a.parties)
                 d == json_dumps(a.data)
             IN IF j.exc THEN j
                ELSE IF d.exc THEN d
                ELSE Returned(<<PromptHead(t), a.text, "Parties: ">> \o j.val
                                 \o <<"Key Terms: ">> \o d.val)
      [] t = "assess_legal_risk" ->
             LET d == json_dumps(a.data)
             IN IF d.exc THEN d
                ELSE Returned(<<PromptHead(t), a.text, "Context: ">> \o d.val)
      [] OTHER -> Returned(<<PromptHead(t), a.text>>)

BuildRequest(t, prompt) ==
    [model |-> "gpt-4", persona |-> Persona(t),
     prompt |-> prompt, temperature |-> Temperature(t)]

NoRequest == [model |-> "", persona |-> "", prompt |-> <<>>, temperature |-> ""]

(***************************************************************************)
(* Completions the model may return                                        *)
(***************************************************************************)
ExampleAnalysisText ==
    <<"{", "\"risk_score\"", ":", "7", ",",
      "\"key_terms\"", ":", "[", "\"indemnification\"", "]", ",",
      "\"potential_issues\"", ":", "[", "\"one-sided termination\"", "]", ",",
      "\"recommendations\"", ":", "[", "\"add mutual termination\"", "]", ",",
      "\"missing_clauses\"", ":", "[", "\"force majeure\"", "]", "}">>

ExampleAssessText ==
    <<"{", "\"risk_level\"", ":", "\"High\"", ",",
      "\"risk_score\"", ":", "7", ",",
      "\"risk_factors\"", ":", "[", "\"data breach\"", "]", ",",
      "\"mitigation_strategies\"", ":", "[", "\"encrypt records\"", "]", ",",
      "\"recommended_actions\"", ":", "[", "\"notify regulator\"", "]", "}">>

ExampleResearchText ==
    <<"{", "\"summary\"", ":", "\"Statute of frauds\"", ",",
      "\"key_principles\"", ":", "[", "\"writing required\"", "]", ",",
      "\"precedent_cases\"", ":", "[", "\"Smith v. Jones\"", "]", ",",
      "\"practical_implications\"", ":", "[", "\"oral deals unenforceable\"", "]", ",",
      "\"recommendations\"", ":", "[", "\"get it in writing\"", "]", "}">>

\* the analysis with pretty-printing whitespace around it
IndentedText == <<"\n", " ">> \o ExampleAnalysisText \o <<"\n">>
\* the analysis wrapped in a markdown fence
FencedText == <<"~~~json">> \o ExampleAnalysisText \o <<"~~~">>
\* the analysis followed by a remark
TrailingText == ExampleAnalysisText \o <<"Hope", "this", "helps">>
\* the analysis cut off by the token limit
TruncatedText == SubSeq(ExampleAnalysisText, 1, 14)
ProseText == <<"Sure", "here", "is", "the", "analysis">>
\* valid JSON objects that are not the requested shape
MissingFieldText ==
    <<"{", "\"risk_score\"", ":", "7", ",",
      "\"key_terms\"", ":", "[", "\"indemnification\"", "]", "}">>
ExtraFieldText ==
    SubSeq(ExampleAnalysisText, 1, Len(ExampleAnalysisText) - 1)
        \o <<",", "\"confidence\"", ":", "3", "}">>
WrongLevelText ==
    <<"{", "\"risk_level\"", ":", "\"Severe\"">>
        \o SubSeq(ExampleAssessText, 5, Len(ExampleAssessText))

\* the analysis with its score as a quoted number, as NaN
QuotedScoreText == <<"{", "\"risk_score\"", ":", "\"7\"">> \o SubSeq(ExampleAnalysisText, 5, Len(ExampleAnalysisText))
NaNScoreText == <<"{", "\"risk_score\"", ":", "NaN">> \o SubSeq(ExampleAnalysisText, 5, Len(ExampleAnalysisText))
\* an analysis whose key_terms is a string
StringTermsText ==
    <<"{", "\"risk_score\"", ":", "7", ",",
      "\"key_terms\"", ":", "\"indemnification\"", "}">>

SampleTexts ==
    { ExampleAnalysisText, ExampleAssessText, ExampleResearchText,
      IndentedText, FencedText, TrailingText, TruncatedText, ProseText,
      MissingFieldText, ExtraFieldText, WrongLevelText,
      QuotedScoreText, NaNScoreText, StringTermsText }

Alphabet == {"{", "}", "[", "]", ":", ",", "7", "\"risk_score\"", "NaN"}

\* every text of at most MaxLen lexemes over Alphabet, the empty text included
GeneratedTexts == UNION { [1..n -> Alphabet] : n \in 0..MaxLen }

Texts == SampleTexts \cup GeneratedTexts

Outcomes ==
    { Raises(e) : e \in InvokerErrors }
        \cup { Response(<<>>), Response(<<PyNone>>) }
        \cup { Response(<<PyStr(t)>>) : t \in Texts }
        \cup { Response(<<PyStr(t), PyStr(ProseText)>>) :
                   t \in {ExampleAnalysisText, ExampleResearchText} }
        \cup { Response(<<PyStr(ProseText), PyStr(t)>>) :
                   t \in {ExampleAnalysisText, ExampleAssessText} }

\* the outcomes of the calls that run concurrently
ConcOutcomes ==
    { Raises([cls |-> "Timeout", msg |-> "Request timed out"]),
      Response(<<PyStr(ExampleAnalysisText)>>),
      Response(<<PyStr(ExampleAssessText)>>),
      Response(<<PyStr(ProseText)>>) }

InputTexts == {"This Agreement ...", "Lease of premises"}
\* the text the concurrent calls are about
ConcInputTexts == {"This Agreement ..."}

GoodParties == PyList(<<PyStr(<<"Acme Ltd">>), PyStr(<<"Beta LLC">>)>>)
\* a party given as a number
BadParties == PyList(<<PyStr(<<"Acme Ltd">>), PyInt(7)>>)
GoodData == PyDict("key_terms" :> PyList(<<PyStr(<<"indemnification">>)>>))
\* a mapping holding a datetime
BadData == PyDict("summary" :> <<"datetime", "2026-01-01">>)

\* the calls a caller may make: the gateway and its arguments
CallsOn(texts) ==
    { <<t, Args(x, PyNone, PyNone)>> :
          t \in {"analyze_contract", "legal_research"}, x \in texts }
        \cup { <<"generate_contract_draft", Args("NDA", p, d)>> :
                   p \in {GoodParties, BadParties}, d \in {GoodData, BadData} }
        \cup { <<"assess_legal_risk", Args("Late delivery", PyNone, d)>> :
                   d \in {GoodData, BadData, PyDict(EmptyDict)} }

Calls == CallsOn(InputTexts)

ConcCalls ==
    { <<t, Args(x, PyNone, PyNone)>> :
          t \in {"analyze_contract", "legal_research"}, x \in ConcInputTexts }
        \cup { <<"generate_contract_draft", Args("NDA", GoodParties, d)>> :
                   d \in {GoodData, BadData} }
        \cup { <<"assess_legal_risk", Args("Late delivery", PyNone, GoodData)>> }

(***************************************************************************)
(* State.  A slot c holds one gateway call at a time: pc[c] is the         *)
(* coroutine's position (idle: not started, awaiting: suspended in the     *)
(* await, done: returned, raised: ended by an exception).  heap holds the  *)
(* objects the calls returned, result[c] the object the call returned.     *)
(***************************************************************************)
Slots == {1}
ConcSlots == 1..NCalls
ObjIds == 1..NCalls
NoObj == <<"free", "free">>

FreshId(h) ==
    CHOOSE i \in ObjIds : h[i] = NoObj /\ \A j \in ObjIds : j < i => h[j] # NoObj

\* one result object kept on the service and handed to every caller
SharedResultRef(c, h) == 1

\* where a returned value lives: every return evaluates a dict display, a
\* json.loads call or an f-string, hence a new object
ResultRef(c, h) == FreshId(h)

\* slot c serves no request
NoHttp ==
    [stage |-> "none", route |-> "", token |-> "", doctype |-> "",
     written |-> FALSE, status |-> 0, body |-> PyNone]

InitSlots(S) ==
    /\ pc = [c \in S |-> "idle"]
    /\ task = [c \in S |-> "analyze_contract"]
    /\ input = [c \in S |-> NoArgs]
    /\ request = [c \in S |-> NoRequest]
    /\ invocations = [c \in S |-> 0]
    /\ outcome = [c \in S |-> NoOutcome]
    /\ result = [c \in S |-> 0]
    /\ heap = [i \in ObjIds |-> NoObj]
    /\ log = [c \in S |-> <<>>]
    /\ tampered = [c \in S |-> FALSE]
    /\ http = [c \in S |-> NoHttp]

Init == InitSlots(Slots)
InitConc == InitSlots(ConcSlots)

\* the prompt's f-string lies outside the try block
on_build_error_outside_try(t, e) == Propagate(e)

\* an exception leaving the prompt's f-string is inside the try block: the
\* handler treats it as it treats one leaving the await
on_build_error(t, e) == Gateway(t, Raises(e))

\* a caller makes one of calls: the prompt is built and the request sent,
\* and the coroutine suspends in the await; if building the prompt raises,
\* the coroutine runs to its end without sending anything
Call(c, calls) ==
    /\ pc[c] = "idle"
    /\ \E call \in calls :
          LET t == call[1]
              a == call[2]
              b == build_prompt(t, a)
          IN /\ task' = [task EXCEPT ![c] = t]
             /\ input' = [input EXCEPT ![c] = a]
             /\ IF ~b.exc
                THEN /\ request' = [request EXCEPT ![c] = BuildRequest(t, b.val)]
                     /\ invocations' = [invocations EXCEPT ![c] = 1]
                     /\ pc' = [pc EXCEPT ![c] = "awaiting"]
                     /\ log' = [log EXCEPT ![c] = <<>>]
                     /\ UNCHANGED <<result, heap>>
                ELSE LET g == on_build_error(t, b.e) IN
                     /\ request' = [request EXCEPT ![c] = NoRequest]
                     /\ invocations' = [invocations EXCEPT ![c] = 0]
                     /\ log' = [log EXCEPT ![c] = g.log]
                     /\ IF g.kind = "return"
                        THEN LET r == ResultRef(c, heap) IN
                                /\ heap' = [heap EXCEPT ![r] = g.val]
                                /\ result' = [result EXCEPT ![c] = r]
                                /\ pc' = [pc EXCEPT ![c] = "done"]
                        ELSE /\ pc' = [pc EXCEPT ![c] = "raised"]
                             /\ UNCHANGED <<result, heap>>
    /\ outcome' = [outcome EXCEPT ![c] = NoOutcome]
    /\ tampered' = [tampered EXCEPT ![c] = FALSE]

\* the coroutine sending its request once more after a failed attempt
ResumeRetry(c, outs) ==
    /\ pc[c] = "awaiting"
    /\ \E out \in outs :
          LET g == Gateway(task[c], out) IN
             /\ outcome' = [outcome EXCEPT ![c] = out]
             /\ IF g.log # <<>> /\ invocations[c] < 2
                THEN /\ invocations' = [invocations EXCEPT ![c] = @ + 1]
                     /\ UNCHANGED <<pc, result, heap, log>>
                ELSE /\ log' = [log EXCEPT ![c] = log[c] \o g.log]
                     /\ UNCHANGED invocations
                     /\ IF g.kind = "return"
                        THEN LET r == ResultRef(c, heap) IN
                                /\ heap' = [heap EXCEPT ![r] = g.val]
                                /\ result' = [result EXCEPT ![c] = r]
                                /\ pc' = [pc EXCEPT ![c] = "done"]
                        ELSE /\ pc' = [pc EXCEPT ![c] = "raised"]
                             /\ UNCHANGED <<result, heap>>
    /\ UNCHANGED <<task, input, request, tampered>>

\* the await completes with one of the outcomes outs and the coroutine runs
\* to its end
Resume(c, outs) ==
    /\ pc[c] = "awaiting"
    /\ \E out \in outs :
          LET g == Gateway(task[c], out) IN
             /\ outcome' = [outcome EXCEPT ![c] = out]
             /\ log' = [log EXCEPT ![c] = log[c] \o g.log]
             /\ IF g.kind = "return"
                THEN LET r == ResultRef(c, heap) IN
                        /\ heap' = [heap EXCEPT ![r] = g.val]
                        /\ result' = [result EXCEPT ![c] = r]
                        /\ pc' = [pc EXCEPT ![c] = "done"]
                ELSE /\ pc' = [pc EXCEPT ![c] = "raised"]
                     /\ UNCHANGED <<result, heap>>
    /\ UNCHANGED <<task, input, request, invocations, tampered>>

\* the caller writes into the mapping it was handed
CallerMutate(c) ==
    /\ pc[c] = "done"
    /\ ~tampered[c]
    /\ IsDict(heap[result[c]])
    /\ heap' = [heap EXCEPT ![result[c]] =
                   PyDict(("risk_score" :> PyInt(0)) @@ heap[result[c]][2])]
    /\ tampered' = [tampered EXCEPT ![c] = TRUE]
    /\ UNCHANGED <<pc, task, input, request, invocations, outcome, result, log>>

\* the caller is finished with the call: the call's frame and the object it
\* returned are dropped, and the slot can take the next call
Release(c) ==
    /\ pc[c] \in {"done", "raised"}
    /\ pc' = [pc EXCEPT ![c] = "idle"]
    /\ heap' = IF pc[c] = "done" THEN [heap EXCEPT ![result[c]] = NoObj] ELSE heap
    /\ result' = [result EXCEPT ![c] = 0]
    /\ task' = [task EXCEPT ![c] = "analyze_contract"]
    /\ input' = [input EXCEPT ![c] = NoArgs]
    /\ request' = [request EXCEPT ![c] = NoRequest]
    /\ invocations' = [invocations EXCEPT ![c] = 0]
    /\ outcome' = [outcome EXCEPT ![c] = NoOutcome]
    /\ log' = [log EXCEPT ![c] = <<>>]
    /\ tampered' = [tampered EXCEPT ![c] = FALSE]

Next ==
    \E c \in DOMAIN pc :
       \/ Call(c, Calls) /\ UNCHANGED http
       \/ Resume(c, Outcomes) /\ UNCHANGED http
       \/ CallerMutate(c) /\ UNCHANGED http
       \/ Release(c) /\ UNCHANGED http

NextConc ==
    \E c \in DOMAIN pc :
       \/ Call(c, ConcCalls) /\ UNCHANGED http
       \/ Resume(c, ConcOutcomes) /\ UNCHANGED http
       \/ CallerMutate(c) /\ UNCHANGED http
       \/ Release(c) /\ UNCHANGED http

Spec == Init /\ [][Next]_vars
SpecConc == InitConc /\ [][NextConc]_vars

\* the value call c returned, as the caller sees it now
Value(c) == heap[result[c]]

TypeOK ==
    /\ \A c \in DOMAIN pc : pc[c] \in {"idle", "awaiting", "done", "raised"}
    /\ \A c \in DOMAIN pc : pc[c] = "done" => result[c] \in ObjIds

(***************************************************************************)
(* The routes in front of the gateway                                      *)
(***************************************************************************)
\* the fields of ContractAnalysisResponse
AnalyzeFieldNames == {"risk_score", "key_terms", "potential_issues",
                      "recommendations", "missing_clauses"}

Routes == {"ai_chat", "analyze_contract", "generate_contract", "assess_risk",
           "upload_document"}

\* bearer tokens by what jwt.decode makes of them
Tokens == {"valid", "expired", "forged", "malformed"}
DocumentTypes == {"contract", "memo", "Contract", ""}

HTTPException(code, detail) ==
    [cls |-> "HTTPException", status_code |-> code, msg |-> detail]
AttributeError == [cls |-> "AttributeError", msg |-> "object has no attribute 'get'"]
ValidationError == [cls |-> "ValidationError", msg |-> "validation error"]

\* jose's jwt.decode with the application's key: the claims of a token signed
\* with it and not expired, a JWTError (or its subclass) for any other
jwt_decode(token) ==
    CASE token = "valid" -> Returned(PyDict([sub |-> PyStr(<<"user">>)]))
      [] token = "expired" ->
             Thrown([cls |-> "ExpiredSignatureError", msg |-> "Signature has expired."])
      [] OTHER -> Thrown([cls |-> "JWTError", msg |-> "Signature verification failed."])

IsJWTError(e) == e.cls \in {"JWTError", "ExpiredSignatureError", "JWTClaimsError"}

verify_token(token) ==
    LET d == jwt_decode(token) IN
       IF ~d.exc THEN Returned(d.val)
       ELSE IF IsJWTError(d.e) THEN Returned(PyNone)
       ELSE Thrown(d.e)

\* the dependency without its check of the payload
get_current_user_unchecked(token) == verify_token(token)

get_current_user(token) ==
    LET payload == verify_token(token) IN
       IF payload.exc THEN payload
       ELSE IF payload.val = PyNone
            THEN Thrown(HTTPException(401, "Could not validate credentials"))
            ELSE payload

\* what the client receives: the status and the JSON body
Reply(code, body) == [status |-> code, body |-> body]

http_exception_handler(exc) ==
    Reply(exc.status_code,
          PyDict([error |-> PyStr(<<exc.msg>>), status_code |-> PyInt(exc.status_code)]))

general_exception_handler ==
    Reply(500, PyDict([error |-> PyStr(<<"Internal server error">>),
                       status_code |-> PyInt(500)]))

\* dict.get(key, default); only a dict has the method
dict_get(d, k, default) ==
    IF ~IsDict(d) THEN Thrown(AttributeError)
    ELSE IF k \in DOMAIN d[2] THEN Returned(d[2][k])
    ELSE Returned(default)

\* the text of a decimal integer, as its value
IntString(chunks) == Len(chunks) = 1 /\ chunks[1] \in DOMAIN NumberLexeme

\* pydantic's validation of a value for a field declared int (lax mode):
\* an int is taken, a bool and a string of digits are converted
validate_int(v) ==
    CASE v[1] = "int" -> Returned(v)
      [] v[1] = "bool" -> Returned(PyInt(IF v[2] THEN 1 ELSE 0))
      [] v[1] = "str" /\ IntString(v[2]) -> Returned(PyInt(NumberLexeme[v[2][1]]))
      [] OTHER -> Thrown(ValidationError)

validate_str(v) == IF IsStr(v) THEN Returned(v) ELSE Thrown(ValidationError)

\* for a field declared List[str]
validate_list_str(v) == IF IsStrList(v) THEN Returned(v) ELSE Thrown(ValidationError)

\* json.dumps(content, allow_nan=False) of JSONResponse.render accepts v
RECURSIVE Renderable(_)
Renderable(v) ==
    CASE v[1] = "float" -> v[2] \notin {"nan", "inf", "-inf"}
      [] v[1] = "list" -> \A i \in 1..Len(v[2]) : Renderable(v[2][i])
      [] v[1] = "dict" -> \A k \in DOMAIN v[2] : Renderable(v[2][k])
      [] OTHER -> TRUE

\* the handler returned content: the response is rendered outside the
\* handler's try block, a failure goes to the handler for Exception
render(content) ==
    IF Renderable(content) THEN Reply(200, content) ELSE general_exception_handler

\* the body of a route's `except Exception` clause
route_failed(detail) == http_exception_handler(HTTPException(500, detail))

\* ContractAnalysisResponse(...) of the five fields read from the analysis
ContractAnalysisResponse(analysis) ==
    LET get == [k \in AnalyzeFieldNames |->
                   dict_get(analysis, k,
                            IF k = "risk_score" THEN PyInt(5) ELSE PyList(<<>>))]
        field == [k \in AnalyzeFieldNames |->
                     IF get[k].exc THEN get[k]
                     ELSE IF k = "risk_score" THEN validate_int(get[k].val)
                     ELSE validate_list_str(get[k].val)]
    IN IF \E k \in AnalyzeFieldNames : field[k].exc
       THEN Thrown(field[CHOOSE k \in AnalyzeFieldNames : field[k].exc].e)
       ELSE Returned(PyDict([k \in AnalyzeFieldNames |-> field[k].val]))

\* r is what `await ai_service.analyze_contract(...)` gave the handler
analyze_contract_route(r) ==
    IF r.exc THEN route_failed("Contract analysis failed")
    ELSE LET m == ContractAnalysisResponse(r.val) IN
            IF m.exc THEN route_failed("Contract analysis failed")
            ELSE render(m.val)

AIAssistantResponse(response) ==
    LET summary == dict_get(response, "summary",
                            PyStr(<<"I'm here to help with legal questions.">>))
        advice == dict_get(response, "recommendations", PyList(<<>>))
        text == IF summary.exc THEN summary ELSE validate_str(summary.val)
        suggestions == IF advice.exc THEN advice ELSE validate_list_str(advice.val)
    IN IF text.exc THEN text
       ELSE IF suggestions.exc THEN suggestions
       ELSE Returned(PyDict([response |-> text.val,
                             confidence |-> PyFloat("0.85"),
                             suggestions |-> suggestions.val]))

ai_chat_route(r) ==
    IF r.exc THEN route_failed("AI service error")
    ELSE LET m == AIAssistantResponse(r.val) IN
            IF m.exc THEN route_failed("AI service error")
            ELSE render(m.val)

generate_contract_route(a, r) ==
    IF r.exc THEN route_failed("Contract generation failed")
    ELSE render(PyDict([contract_draft |-> r.val,
                        contract_type |-> PyStr(<<a.text>>),
                        parties |-> a.parties]))

assess_risk_route(r) ==
    IF r.exc THEN route_failed("Risk assessment failed")
    ELSE render(PyDict([risk_assessment |-> r.val]))

\* the response of upload_document once the file is written; ai_analysis is
\* None or what the gateway returned
upload_document_route(document_type, r) ==
    IF r.exc THEN route_failed("Document upload failed")
    ELSE render(PyDict([document_type |-> PyStr(<<document_type>>),
                        ai_analysis |-> r.val]))

\* the gateway call a route's handler makes
RouteCalls(route) ==
    CASE route = "ai_chat" ->
             { <<"legal_research", Args(x, PyNone, PyNone)>> : x \in InputTexts }
      [] route = "analyze_contract" ->
             { <<"analyze_contract", Args(x, PyNone, PyNone)>> : x \in InputTexts }
      [] route = "generate_contract" ->
             { <<"generate_contract_draft", Args("NDA", GoodParties, GoodData)>> }
      [] route = "assess_risk" ->
             \* `context or {}`
             { <<"assess_legal_risk", Args("Late delivery", PyNone, d)>> :
                   d \in {GoodData, PyDict(EmptyDict)} }
      [] OTHER ->
             { <<"analyze_contract", Args("Sample contract text", PyNone, PyNone)>> }

Responded(h, reply) ==
    [h EXCEPT !.stage = "responded", !.status = reply.status, !.body = reply.body]

\* a request arrives and its dependency get_current_user is resolved
Receive(c) ==
    /\ http[c].stage = "none"
    /\ pc[c] = "idle"
    /\ \E route \in Routes, token \in Tokens, document_type \in DocumentTypes :
          /\ route # "upload_document" => document_type = ""
          /\ LET h == [NoHttp EXCEPT !.route = route, !.token = token,
                                     !.doctype = document_type]
                 u == get_current_user(token)
             IN http' = [http EXCEPT ![c] =
                            IF ~u.exc THEN [h EXCEPT !.stage = "handler"]
                            ELSE IF u.e.cls = "HTTPException"
                                 THEN Responded(h, http_exception_handler(u.e))
                                 ELSE Responded(h, general_exception_handler)]
    /\ UNCHANGED gwvars

\* the dependency RateLimiter(times=20, seconds=60) of ai_chat turns the
\* request away
RateLimit(c) ==
    /\ http[c].stage = "handler"
    /\ http[c].route = "ai_chat"
    /\ http' = [http EXCEPT ![c] =
                   Responded(@, http_exception_handler(
                                    HTTPException(429, "Too Many Requests")))]
    /\ UNCHANGED gwvars

\* upload_document up to its await, or to its return when it has none:
\* the reply it ends with, or "await" with the file written
upload_document_start(document_type, disk_ok) ==
    IF ~disk_ok
    THEN [awaits |-> FALSE, written |-> FALSE,
          reply |-> route_failed("Document upload failed")]
    ELSE IF document_type = "contract"
    THEN [awaits |-> TRUE, written |-> TRUE, reply |-> Reply(0, PyNone)]
    ELSE [awaits |-> FALSE, written |-> TRUE,
          reply |-> upload_document_route(document_type, Returned(PyNone))]

\* a handler runs up to its await of the gateway; the four AI routes start
\* with it, upload_document writes the file first
Handle(c) ==
    /\ http[c].stage = "handler"
    /\ \E disk_ok \in BOOLEAN :
          /\ http[c].route # "upload_document" => disk_ok
          /\ LET start == IF http[c].route = "upload_document"
                          THEN upload_document_start(http[c].doctype, disk_ok)
                          ELSE [awaits |-> TRUE, written |-> FALSE,
                                reply |-> Reply(0, PyNone)]
             IN IF start.awaits
                THEN /\ Call(c, RouteCalls(http[c].route))
                     /\ http' = [http EXCEPT ![c].stage = "awaiting",
                                             ![c].written = start.written]
                ELSE /\ http' = [http EXCEPT ![c] =
                                    Responded([@ EXCEPT !.written = start.written],
                                              start.reply)]
                     /\ UNCHANGED gwvars

\* the model's reply resumes the gateway call the handler awaits
Await(c) ==
    /\ http[c].stage = "awaiting"
    /\ Resume(c, Outcomes)
    /\ UNCHANGED http

\* what the route's handler makes of the gateway's result r
RouteReply(h, a, r) ==
    CASE h.route = "ai_chat" -> ai_chat_route(r)
      [] h.route = "analyze_contract" -> analyze_contract_route(r)
      [] h.route = "generate_contract" -> generate_contract_route(a, r)
      [] h.route = "assess_risk" -> assess_risk_route(r)
      [] OTHER -> upload_document_route(h.doctype, r)

\* the gateway call ended: the handler goes on to its return or its except
Respond(c) ==
    /\ http[c].stage = "awaiting"
    /\ pc[c] \in {"done", "raised"}
    /\ LET r == IF pc[c] = "done" THEN Returned(Value(c)) ELSE Thrown(outcome[c].e)
       IN http' = [http EXCEPT ![c] = Responded(@, RouteReply(@, input[c], r))]
    /\ UNCHANGED gwvars

\* the response is sent and the request's objects are dropped
Finish(c) ==
    /\ http[c].stage = "responded"
    /\ http' = [http EXCEPT ![c] = NoHttp]
    /\ IF pc[c] = "idle" THEN UNCHANGED gwvars ELSE Release(c)

NextHttp ==
    \E c \in DOMAIN pc :
       \/ Receive(c)
       \/ RateLimit(c)
       \/ Handle(c)
       \/ Await(c)
       \/ Respond(c)
       \/ Finish(c)

SpecHttp == Init /\ [][NextHttp]_vars

(***************************************************************************)
(* Vocabulary of the properties                                            *)
(***************************************************************************)
Ended(c) == pc[c] \in {"done", "raised"}

\* the await of call c raised
InvokerRaised(c) == outcome[c].kind = "raise"

\* the await of call c yielded a response whose first completion is a text
HasFirstText(c) ==
    /\ outcome[c].kind = "response"
    /\ Len(outcome[c].choices) >= 1
    /\ IsStr(outcome[c].choices[1])

FirstText(c) == outcome[c].choices[1][2]

StrList(items) == PyList([i \in 1..Len(items) |-> PyStr(<<items[i]>>)])

AnalyzeFields == {"risk_score", "key_terms", "potential_issues",
                  "recommendations", "missing_clauses"}
AssessFields == {"risk_level", "risk_score", "risk_factors",
                 "mitigation_strategies", "recommended_actions"}
ResearchFields == {"summary", "key_principles", "precedent_cases",
                   "practical_implications", "recommendations"}
RiskLevels == {"Low", "Medium", "High", "Critical"}

FieldsOf(t) ==
    CASE t = "analyze_contract" -> AnalyzeFields
      [] t = "assess_legal_risk" -> AssessFields
      [] t = "legal_research" -> ResearchFields
      [] OTHER -> {}

\* v is a mapping with exactly the fields of task t, each of its documented
\* type
MatchesSchema(t, v) ==
    /\ IsDict(v)
    /\ DOMAIN v[2] = FieldsOf(t)
    /\ \A k \in DOMAIN v[2] :
          CASE k = "risk_score" -> IsInt(v[2][k])
            [] k = "summary" -> IsStr(v[2][k])
            [] k = "risk_level" ->
                   IsStr(v[2][k]) /\ \E l \in RiskLevels : v[2][k][2] = <<l>>
            [] OTHER -> IsStrList(v[2][k])

\* v is a mapping that carries the fields of task t
CarriesFields(t, v) == IsDict(v) /\ FieldsOf(t) \subseteq DOMAIN v[2]

\* the degraded defaults as the documentation's table gives them
DocumentedAnalyzeDefault ==
    PyDict([risk_score |-> PyInt(5),
            key_terms |-> StrList(<<>>),
            potential_issues |-> StrList(<<"Analysis error occurred">>),
            recommendations |-> StrList(<<"Manual review recommended">>),
            missing_clauses |-> StrList(<<>>)])

DocumentedAssessDefault ==
    PyDict([risk_level |-> PyStr(<<"Medium">>),
            risk_score |-> PyInt(5),
            risk_factors |-> StrList(<<"Assessment error occurred">>),
            mitigation_strategies |-> StrList(<<"Manual review recommended">>),
            recommended_actions |-> StrList(<<"Consult legal expert">>)])

DocumentedResearchDefault ==
    PyDict([summary |-> PyStr(<<"Research error occurred">>),
            key_principles |-> StrList(<<>>),
            precedent_cases |-> StrList(<<>>),
            practical_implications |-> StrList(<<>>),
            recommendations |-> StrList(<<>>)])

\* what legal_research falls back to
ObservedResearchDefault ==
    PyDict([summary |-> PyStr(<<"Research error occurred">>),
            key_principles |-> StrList(<<>>),
            precedent_cases |-> StrList(<<>>),
            practical_implications |-> StrList(<<>>),
            recommendations |-> StrList(<<"Manual research recommended">>)])

FallbackOf(t) ==
    CASE t = "analyze_contract" -> DocumentedAnalyzeDefault
      [] t = "assess_legal_risk" -> DocumentedAssessDefault
      [] t = "legal_research" -> ObservedResearchDefault
      [] OTHER -> PyNone

\* building the prompt of call c raised
BuildFailed(c) == build_prompt(task[c], input[c]).exc

\* what the task, the arguments and the outcome of call c alone determine
OwnReturn(c) ==
    LET b == build_prompt(task[c], input[c])
    IN IF b.exc THEN on_build_error(task[c], b.e)
       ELSE Gateway(task[c], outcome[c])

OwnRequest(c) ==
    LET b == build_prompt(task[c], input[c])
    IN IF b.exc THEN NoRequest ELSE BuildRequest(task[c], b.val)

\* call c ended by returning v, and the caller has not written into it
ReturnedValue(c, v) == pc[c] = "done" /\ Value(c) = v

(***************************************************************************)
(* C1: when the model invocation of analyze_contract or assess_legal_risk  *)
(* raises, the call returns that task's documented default, field for      *)
(* field.                                                                  *)
(***************************************************************************)
C1_DefaultOnInvokerError ==
    \A c \in DOMAIN pc :
       (Ended(c) /\ ~tampered[c] /\ InvokerRaised(c)) =>
          /\ task[c] = "analyze_contract" =>
                ReturnedValue(c, DocumentedAnalyzeDefault)
          /\ task[c] = "assess_legal_risk" =>
                ReturnedValue(c, DocumentedAssessDefault)

C1_Witness ==
    \E c \in DOMAIN pc :
       /\ pc[c] = "done" /\ ~tampered[c]
       /\ task[c] = "assess_legal_risk"
       /\ outcome[c] = Raises([cls |-> "Timeout", msg |-> "Request timed out"])
       /\ Value(c)[2]["recommended_actions"] = StrList(<<"Consult legal expert">>)

(***************************************************************************)
(* C2 as stated: when the model invocation of legal_research raises, the   *)
(* call returns summary "Research error occurred" and four empty lists.    *)
(***************************************************************************)
C2_AllOtherFieldsEmpty ==
    \A c \in DOMAIN pc :
       (Ended(c) /\ ~tampered[c] /\ InvokerRaised(c)
            /\ task[c] = "legal_research") =>
          ReturnedValue(c, DocumentedResearchDefault)

(***************************************************************************)
(* C2 amended: when the model invocation of legal_research raises, the     *)
(* call returns summary "Research error occurred", empty key_principles,   *)
(* precedent_cases and practical_implications, and recommendations         *)
(* ["Manual research recommended"].                                        *)
(***************************************************************************)
C2_ResearchDefaultOnInvokerError ==
    \A c \in DOMAIN pc :
       (Ended(c) /\ ~tampered[c] /\ InvokerRaised(c)
            /\ task[c] = "legal_research") =>
          ReturnedValue(c, ObservedResearchDefault)

C2_Witness ==
    \E c \in DOMAIN pc :
       /\ pc[c] = "done" /\ ~tampered[c]
       /\ task[c] = "legal_research"
       /\ InvokerRaised(c)
       /\ Value(c)[2]["summary"] = PyStr(<<"Research error occurred">>)

(***************************************************************************)
(* C3: when the first completion of a JSON task is valid JSON matching the *)
(* task's schema, the call returns the decoded mapping unchanged and logs  *)
(* nothing; the documented example analysis comes back as exactly that     *)
(* mapping.                                                                *)
(***************************************************************************)
ExampleAnalysis ==
    PyDict([risk_score |-> PyInt(7),
            key_terms |-> StrList(<<"indemnification">>),
            potential_issues |-> StrList(<<"one-sided termination">>),
            recommendations |-> StrList(<<"add mutual termination">>),
            missing_clauses |-> StrList(<<"force majeure">>)])

C3_ValidJsonUnchanged ==
    \A c \in DOMAIN pc :
       (Ended(c) /\ ~tampered[c] /\ task[c] \in JsonTasks /\ HasFirstText(c)) =>
          /\ LET d == json_loads(FirstText(c)) IN
                (d.ok /\ MatchesSchema(task[c], d.val)) =>
                    ReturnedValue(c, d.val) /\ log[c] = <<>>
          /\ (task[c] = "analyze_contract"
                 /\ FirstText(c) \in {ExampleAnalysisText, IndentedText}) =>
                ReturnedValue(c, ExampleAnalysis)

C3_Witness ==
    \E c \in DOMAIN pc :
       /\ pc[c] = "done" /\ ~tampered[c]
       /\ task[c] = "legal_research"
       /\ HasFirstText(c) /\ FirstText(c) = ExampleResearchText
       /\ MatchesSchema("legal_research", Value(c))

(***************************************************************************)
(* C4: when the first completion of a JSON task is a text the decoder      *)
(* rejects (prose, truncated or malformed JSON), the call returns the      *)
(* task's complete default, never a partially decoded mapping.             *)
(***************************************************************************)
C4_DefaultOnUndecodableText ==
    \A c \in DOMAIN pc :
       (Ended(c) /\ ~tampered[c] /\ task[c] \in JsonTasks /\ HasFirstText(c)
            /\ ~json_loads(FirstText(c)).ok) =>
          ReturnedValue(c, FallbackOf(task[c]))

C4_Witness ==
    \E c \in DOMAIN pc :
       /\ pc[c] = "done" /\ ~tampered[c]
       /\ task[c] = "analyze_contract"
       /\ HasFirstText(c) /\ FirstText(c) = TrailingText
       /\ Value(c) = DocumentedAnalyzeDefault

(***************************************************************************)
(* C5: no gateway call lets an exception through to its caller: whatever   *)
(* the model invocation does (raises, yields no completion, a completion   *)
(* without text, non-JSON text or valid JSON), the call ends by returning  *)
(* a value.                                                                *)
(***************************************************************************)
C5_NeverPropagates ==
    \A c \in DOMAIN pc :
       /\ pc[c] # "raised"
       /\ pc[c] = "done" => result[c] \in ObjIds /\ Value(c) # NoObj

C5_Witness ==
    \E c \in DOMAIN pc :
       /\ pc[c] = "done"
       /\ task[c] = "assess_legal_risk"
       /\ outcome[c] \in {Response(<<>>), Response(<<PyNone>>)}

(***************************************************************************)
(* C6 as stated: every value a JSON task returns is a mapping carrying the *)
(* task's five fields; a completion that is valid JSON of another shape is *)
(* turned into the default.                                                *)
(***************************************************************************)
C6_AlwaysSchemaShape ==
    \A c \in DOMAIN pc :
       (pc[c] = "done" /\ ~tampered[c] /\ task[c] \in JsonTasks) =>
          CarriesFields(task[c], Value(c))

(***************************************************************************)
(* C7: on its success path generate_contract_draft returns the first       *)
(* completion's text verbatim, whatever the text (valid JSON, malformed    *)
(* JSON, empty), and logs nothing.                                         *)
(***************************************************************************)
C7_DraftVerbatim ==
    \A c \in DOMAIN pc :
       (Ended(c) /\ task[c] = "generate_contract_draft" /\ HasFirstText(c)) =>
          /\ ReturnedValue(c, PyStr(FirstText(c)))
          /\ log[c] = <<>>

C7_Witness ==
    \E c \in DOMAIN pc :
       /\ pc[c] = "done"
       /\ task[c] = "generate_contract_draft"
       /\ HasFirstText(c) /\ FirstText(c) = TruncatedText
       /\ Value(c) = PyStr(TruncatedText)

(***************************************************************************)
(* C8: when the model invocation of generate_contract_draft raises e, the  *)
(* call returns "Error generating contract draft: " followed by the        *)
(* message of e.                                                           *)
(***************************************************************************)
C8_DraftErrorString ==
    \A c \in DOMAIN pc :
       (Ended(c) /\ task[c] = "generate_contract_draft" /\ InvokerRaised(c)) =>
          ReturnedValue(c, PyStr(<<"Error generating contract draft: ",
                                   outcome[c].e.msg>>))

C8_Witness ==
    \E c \in DOMAIN pc :
       /\ pc[c] = "done"
       /\ task[c] = "generate_contract_draft"
       /\ outcome[c] = Raises([cls |-> "AuthenticationError",
                               msg |-> "Incorrect API key provided"])
       /\ Value(c) = PyStr(<<"Error generating contract draft: ",
                             "Incorrect API key provided">>)

(***************************************************************************)
(* C9: within one gateway call the model is invoked at most once: a step   *)
(* taken by a suspended call ends the call and sends no further request.   *)
(***************************************************************************)
C9_AtMostOneInvocation ==
    [][\A c \in DOMAIN pc :
          /\ invocations'[c] <= 1
          /\ (pc[c] = "awaiting" /\ outcome'[c] # outcome[c]) =>
                /\ pc'[c] \in {"done", "raised"}
                /\ invocations'[c] = invocations[c]]_vars

C9_Witness ==
    \E c \in DOMAIN pc :
       /\ pc[c] = "done"
       /\ task[c] = "analyze_contract"
       /\ HasFirstText(c) /\ FirstText(c) = ProseText
       /\ invocations[c] = 1
       /\ log[c] # <<>>

(***************************************************************************)
(* C10: of the calls running concurrently, each returns what its own task  *)
(* and the outcome of its own invocation determine, in an object of its    *)
(* own: writing into one call's result leaves the others' results as they  *)
(* were, and each call's request and log entries are its own.              *)
(***************************************************************************)
C10_Independent ==
    \A c \in DOMAIN pc :
       pc[c] = "done" =>
          /\ ~tampered[c] => Value(c) = OwnReturn(c).val
          /\ log[c] = OwnReturn(c).log
          /\ request[c] = OwnRequest(c)
          /\ \A d \in DOMAIN pc \ {c} : pc[d] = "done" => result[d] # result[c]

C10_Witness ==
    \E c, d \in DOMAIN pc :
       /\ c # d
       /\ pc[c] = "done" /\ pc[d] = "done"
       /\ tampered[c] /\ ~tampered[d]
       /\ task[c] = "analyze_contract" /\ task[d] = "analyze_contract"
       /\ InvokerRaised(c) /\ InvokerRaised(d)
       /\ Value(c) # DocumentedAnalyzeDefault
       /\ Value(d) = DocumentedAnalyzeDefault

(***************************************************************************)
(* Failed calls                                                            *)
(***************************************************************************)
\* the try block of call c was left by an exception: the prompt could not
\* be built, the await raised, the response held no completion, or (JSON
\* tasks) the completion was no text or a text the decoder rejects
Failed(c) ==
    \/ BuildFailed(c)
    \/ InvokerRaised(c)
    \/ /\ outcome[c].kind = "response"
       /\ \/ Len(outcome[c].choices) = 0
          \/ /\ task[c] \in JsonTasks
             /\ \/ ~IsStr(outcome[c].choices[1])
                \/ ~json_loads(FirstText(c)).ok

\* the message of the exception that ended the try block of a failed call
ErrorMessage(c) ==
    IF BuildFailed(c) THEN build_prompt(task[c], input[c]).e.msg
    ELSE IF InvokerRaised(c) THEN outcome[c].e.msg
    ELSE IF Len(outcome[c].choices) = 0 THEN "list index out of range"
    ELSE IF ~IsStr(outcome[c].choices[1])
    THEN "the JSON object must be str, bytes or bytearray, not NoneType"
    ELSE json_loads(FirstText(c)).err

\* what a failed call of task t returns when its exception's message is msg
DegradedValue(t, msg) ==
    IF t = "generate_contract_draft"
    THEN PyStr(<<"Error generating contract draft: ", msg>>)
    ELSE FallbackOf(t)

(***************************************************************************)
(* C11: the default a JSON task falls back to has exactly the fields of    *)
(* the task's success schema, with values of the same kinds: an int score, *)
(* strings, lists of strings, a risk_level among Low, Medium, High and     *)
(* Critical.                                                               *)
(***************************************************************************)
C11_DefaultMatchesSchema ==
    \A c \in DOMAIN pc :
       (pc[c] = "done" /\ ~tampered[c] /\ task[c] \in JsonTasks /\ Failed(c)) =>
          /\ DOMAIN Value(c)[2] = FieldsOf(task[c])
          /\ MatchesSchema(task[c], Value(c))

C11_Witness ==
    \E c \in DOMAIN pc :
       /\ pc[c] = "done" /\ ~tampered[c]
       /\ task[c] = "assess_legal_risk"
       /\ Failed(c) /\ HasFirstText(c)
       /\ Value(c)[2]["risk_level"] = PyStr(<<"Medium">>)

(***************************************************************************)
(* C12: every request carries the temperature of its task: 0.1 for         *)
(* analyze_contract, assess_legal_risk and legal_research, 0.2 for         *)
(* generate_contract_draft.                                                *)
(***************************************************************************)
C12_TemperaturePerTask ==
    \A c \in DOMAIN pc :
       invocations[c] >= 1 =>
          /\ task[c] = "analyze_contract" => request[c].temperature = "0.1"
          /\ task[c] = "assess_legal_risk" => request[c].temperature = "0.1"
          /\ task[c] = "legal_research" => request[c].temperature = "0.1"
          /\ task[c] = "generate_contract_draft" => request[c].temperature = "0.2"

C12_Witness ==
    \E c \in DOMAIN pc :
       /\ pc[c] = "awaiting"
       /\ invocations[c] = 1
       /\ task[c] = "generate_contract_draft"
       /\ request[c].temperature = "0.2"

(***************************************************************************)
(* C13: when building the prompt fails (key_terms or context that is not   *)
(* JSON-serializable, a party that is not a string), the call returns the  *)
(* task's degraded default and the model is never invoked in that call.    *)
(***************************************************************************)
C13_BuildFailureDegrades ==
    \A c \in DOMAIN pc :
       (pc[c] # "idle" /\ BuildFailed(c)) =>
          /\ pc[c] = "done"
          /\ invocations[c] = 0
          /\ request[c] = NoRequest
          /\ outcome[c] = NoOutcome
          /\ ~tampered[c] =>
                Value(c) = DegradedValue(task[c], ErrorMessage(c))

C13_Witness ==
    \E c \in DOMAIN pc :
       /\ pc[c] = "done" /\ ~tampered[c]
       /\ task[c] = "generate_contract_draft"
       /\ input[c].parties = BadParties
       /\ invocations[c] = 0
       /\ Value(c) = PyStr(<<"Error generating contract draft: ",
                             "sequence item: expected str instance">>)

(***************************************************************************)
(* C14: a call writes an error log entry exactly when it falls back: a     *)
(* failed call logs one entry, made of the task's own prefix and the       *)
(* error's message, and returns the degraded default; a call that did not  *)
(* fail logs nothing.                                                      *)
(***************************************************************************)
LogPrefix(t) ==
    CASE t = "analyze_contract" -> "Error analyzing contract: "
      [] t = "generate_contract_draft" -> "Error generating contract: "
      [] t = "assess_legal_risk" -> "Error assessing risk: "
      [] t = "legal_research" -> "Error in legal research: "

C14_LogIffDegraded ==
    \A c \in DOMAIN pc :
       pc[c] = "done" =>
          IF Failed(c)
          THEN /\ log[c] = <<PyStr(<<LogPrefix(task[c]), ErrorMessage(c)>>)>>
               /\ ~tampered[c] =>
                     Value(c) = DegradedValue(task[c], ErrorMessage(c))
          ELSE log[c] = <<>>

C14_Witness ==
    \E c \in DOMAIN pc :
       /\ pc[c] = "done"
       /\ task[c] = "legal_research"
       /\ HasFirstText(c) /\ FirstText(c) = FencedText
       /\ log[c] = <<PyStr(<<"Error in legal research: ", "Expecting value">>)>>


(***************************************************************************)
(* C15: a successful response of the analyze-contract route has exactly    *)
(* the five fields; each is the value the gateway's mapping holds under    *)
(* that key, or the default (risk_score 5, an empty list for the others)   *)
(* when the mapping lacks the key; no other key of the mapping appears.    *)
(***************************************************************************)
Succeeded(c, route) ==
    /\ http[c].stage = "responded"
    /\ http[c].route = route
    /\ http[c].status = 200

FieldDefault(k) == IF k = "risk_score" THEN PyInt(5) ELSE PyList(<<>>)

C15_FieldsAreGatewayValues ==
    \A c \in DOMAIN pc :
       Succeeded(c, "analyze_contract") =>
          /\ IsDict(http[c].body)
          /\ DOMAIN http[c].body[2] = AnalyzeFields
          /\ \A k \in AnalyzeFields :
                http[c].body[2][k] =
                   IF k \in DOMAIN Value(c)[2] THEN Value(c)[2][k] ELSE FieldDefault(k)


(***************************************************************************)
(* C16: the handler of a route that depends on get_current_user runs only  *)
(* for a token that jwt.decode accepts.  A request whose token fails       *)
(* verification is answered 401 "Could not validate credentials", and at   *)
(* no point of it is the model invoked, a gateway call started or a file   *)
(* written.                                                                *)
(***************************************************************************)
TokenFails(token) == jwt_decode(token).exc

InHandler(c) == http[c].stage \in {"handler", "awaiting"}

Unauthorized ==
    PyDict([error |-> PyStr(<<"Could not validate credentials">>),
            status_code |-> PyInt(401)])

C16_HandlerOnlyWithValidToken ==
    \A c \in DOMAIN pc :
       /\ InHandler(c) => ~TokenFails(http[c].token)
       /\ (http[c].stage # "none" /\ TokenFails(http[c].token)) =>
             /\ http[c].stage = "responded"
             /\ http[c].status = 401
             /\ http[c].body = Unauthorized
             /\ invocations[c] = 0
             /\ pc[c] = "idle"
             /\ ~http[c].written

\* an upload of a contract with an expired token was turned away
C16_Witness ==
    \E c \in DOMAIN pc :
       /\ http[c].stage = "responded"
       /\ http[c].route = "upload_document"
       /\ http[c].doctype = "contract"
       /\ http[c].token = "expired"
       /\ http[c].status = 401

(***************************************************************************)
(* C17: upload_document starts the contract analysis only for              *)
(* document_type "contract" and only once the file is written.  With any   *)
(* other document_type the model is not invoked and the response's         *)
(* ai_analysis is null; with "contract" the response is a 200 whose        *)
(* ai_analysis is what the gateway returned, the degraded default when the *)
(* model failed: nothing the model does turns the upload into a 500.       *)
(***************************************************************************)
Uploading(c) == http[c].stage # "none" /\ http[c].route = "upload_document"

C17_UploadAnalysis ==
    \A c \in DOMAIN pc :
       Uploading(c) =>
          /\ pc[c] # "idle" => (http[c].doctype = "contract" /\ http[c].written)
          /\ (http[c].stage = "responded" /\ http[c].written) =>
                IF http[c].doctype = "contract"
                THEN /\ invocations[c] = 1
                     /\ http[c].status = 200
                     /\ http[c].body[2].ai_analysis = Value(c)
                     /\ Failed(c) => Value(c) = AnalyzeDefault
                ELSE /\ invocations[c] = 0
                     /\ pc[c] = "idle"
                     /\ http[c].status = 200
                     /\ http[c].body[2].ai_analysis = PyNone

====
